---------------------------- MODULE Spec2Model ----------------------------
(***************************************************************************)
(* honeyelb: the processed-object state file (state/state.go), the         *)
(* per-object parse loop of the three event parsers (publisher/elb.go,     *)
(* publisher/cloudfront.go and the earlier CloudfrontEventParser),         *)
(* HoneycombPublisher.Publish (publisher/publisher.go), the parsers'       *)
(* DynSample and the timestamp rejoin of cloudfront.go.                    *)
(***************************************************************************)
EXTENDS Integers, Sequences, FiniteSets, TLC

VARIABLES
    \* ---- state/state.go ----
    file,       \* the state file: [exists, data], data a sequence of JSON tokens
    inserted,   \* history: the ids of the SetProcessed calls that returned nil
    writeFailed, \* history: an ioutil.WriteFile of the store has failed
    ret,        \* what the last store call returned
    calls,      \* number of store calls made (bounded by MaxCalls)
    \* ---- concurrent callers of one FileStater ----
    mutex,      \* holder of FileStater.Mutex, or NoOne
    wpc,        \* per worker: position inside ProcessedObjects / SetProcessed
    wop,        \* per worker: the call in progress, [op, id]
    wobjs,      \* per worker: the local slice processedObjects
    committed,  \* history: ids in the order their SetProcessed completed
    wret,       \* per worker: "" while running, then "ok" or "err"
    started,    \* number of calls started by the workers (bounded)
    \* ---- publisher: one Publish(downloadedObj) ----
    variant,    \* the EventParser in use
    obj,        \* the downloaded object: its lines and what reading it does
    ppc,        \* position inside Publish / ParseEvents
    pos,        \* number of lines the scanner has yielded
    nLines,     \* the local nLines of ParseEvents
    idx,        \* the local i of the earlier parser's second loop
    ev,         \* the event in hand (its line number), 0 if none
    submitted,  \* history: line numbers sent on linesCh, in order
    confirmed,  \* history: line numbers of the events taken from eventsCh
    forwarded,  \* history: line numbers of the events sent on out
    dropped,    \* history: lines the tokenizer took and emitted nothing for
    hstate,     \* per line handler of nginx ProcessLines: [st, line]
    timerArmed, \* the time.Timer is running
    timerChan,  \* a value sits in timer.C
    parseRet,   \* what ParseEvents returned, "running" before
    pret,       \* what Publish returned, "running" before
    localFile,  \* the downloaded file exists on disk
    markCalled, \* history: Publish has called Stater.SetProcessed
    file0,      \* history: the state file when Publish was called
    timerStale, \* history: the value in timer.C was sent before the line
                \* ParseEvents now waits for was submitted
    \* ---- publisher: DynSample and sendEventsToHoneycomb ----
    sampler,    \* the EventParser whose DynSample runs
    slast,      \* the last iteration of DynSample: event, key, rate, draw
    sampledCh,  \* the event DynSample is blocked sending on out, if any
    \* ---- cloudfront.go: the timestamp rejoin of one scanned line ----
    line,       \* the text scanner.Text() returned, a sequence of characters
    rj,         \* what the loop body did with it
    \* ---- the ingest command: cmdELB / cmdCloudFront ----
    cmd,        \* which program runs
    configured, \* the load balancers / distributions named, in order
    pending,    \* per name: the objects its downloader has yet to hand over
    published,  \* history: the objects passed to Publish, and the outcome
    mpc,        \* the command: "loop", "exited" (interrupt) or "failed"
    offers      \* number of objects the downloaders have offered (bounded)

storeVars == <<file, inserted, writeFailed, ret, calls>>
concVars  == <<mutex, wpc, wop, wobjs, wret, committed, started>>
pubVars   == <<variant, obj, ppc, pos, nLines, idx, ev, submitted, confirmed,
               forwarded, dropped, hstate, timerArmed, timerChan, parseRet,
               pret, localFile, markCalled, file0, timerStale>>
sampleVars == <<sampler, slast, sampledCh>>
rejoinVars == <<line, rj>>
ingestVars == <<cmd, configured, pending, published, mpc, offers>>
auxVars   == <<sampleVars, rejoinVars, ingestVars>>
vars      == <<storeVars, concVars, pubVars, auxVars>>

---------------------------------------------------------------------------
\* Bounds of the model.

\* Number of store calls explored by Spec.
MaxCalls == 6

\* Number of store calls the concurrent workers start in SpecConc.
MaxStarted == 4

\* Longest downloaded object, in lines.
MaxLines == 4

\* runtime.NumCPU(): the number of line handlers nginx ProcessLines runs.
NumParsers == 2

\* Longest scanned line of the rejoin model, in characters.
MaxChars == 5

\* Number of objects the downloaders offer in the ingest model.
MaxOffers == 3

\* Largest rate the estimator returns in the model.
MaxRate == 2

\* The cap of the model; state.go uses 20000.
ModelCap == 3

\* Object identifiers (S3 keys: valid UTF-8, which encoding/json round-trips).
Objects == {"a", "b", "c"}

---------------------------------------------------------------------------
\* state/state.go

maxProcessedObjects == ModelCap

\* JSON text is modelled as its token sequence: "[", "]", "," and one token
\* per string literal.
Punct == {"[", "]", ","}

RECURSIVE JoinComma(_)
JoinComma(objs) ==
    IF Len(objs) = 0 THEN <<>>
    ELSE IF Len(objs) = 1 THEN <<objs[1]>>
    ELSE <<objs[1], ",">> \o JoinComma(Tail(objs))

\* json.Marshal of a non-nil []string.
Marshal(objs) == <<"[">> \o JoinComma(objs) \o <<"]">>

UnmarshalErr == [err |-> TRUE, objs |-> <<>>]

RECURSIVE ParseElems(_, _, _)
ParseElems(data, i, acc) ==
    IF i + 1 > Len(data) \/ data[i] \in Punct THEN UnmarshalErr
    ELSE IF data[i + 1] = "]"
         THEN IF i + 1 = Len(data)
              THEN [err |-> FALSE, objs |-> Append(acc, data[i])]
              ELSE UnmarshalErr
    ELSE IF data[i + 1] = ","
         THEN ParseElems(data, i + 2, Append(acc, data[i]))
    ELSE UnmarshalErr

\* json.Unmarshal(data, &objs): the whole text must be one array of strings;
\* on a syntax error objs is left nil.
Unmarshal(data) ==
    IF Len(data) < 2 \/ data[1] # "[" THEN UnmarshalErr
    ELSE IF data[2] = "]"
         THEN IF Len(data) = 2 THEN [err |-> FALSE, objs |-> <<>>]
              ELSE UnmarshalErr
    ELSE ParseElems(data, 2, <<>>)

NoFile == [exists |-> FALSE, data |-> <<>>]

\* Outcomes of one file-system call.
IoOk      == [kind |-> "ok", n |-> 0]
IoOpenErr == [kind |-> "open_err", n |-> 0]
IoShort(n) == [kind |-> "short", n |-> n]
IoReadErr == [kind |-> "read_err", n |-> 0]

\* ioutil.WriteFile(name, data, 0644): open with O_TRUNC, write, close.
\* A failed open leaves the file alone; a failed write leaves the n tokens
\* written after the truncation.
WriteFile(f, data, io) ==
    IF io.kind = "ok"
    THEN [file |-> [exists |-> TRUE, data |-> data], err |-> FALSE]
    ELSE IF io.kind = "short" /\ io.n < Len(data)
    THEN [file |-> [exists |-> TRUE, data |-> SubSeq(data, 1, io.n)], err |-> TRUE]
    ELSE [file |-> f, err |-> TRUE]

WriteOutcomes(data) ==
    {IoOk, IoOpenErr} \cup {IoShort(n) : n \in 0 .. (Len(data) - 1)}

ReadOutcomes == {IoOk, IoReadErr}

\* processedObjects without the branch of state.go:67-73: a missing state file
\* is an error and is not created.
processedObjectsNoCreate(f, ioC, ioR) ==
    IF ~f.exists \/ ioR.kind # "ok"
    THEN [file |-> f, objs |-> <<>>, err |-> TRUE]
    ELSE LET u == Unmarshal(f.data)
         IN  [file |-> f, objs |-> u.objs, err |-> u.err]

\* FileStater.processedObjects, state.go:64-86.
processedObjects(f, ioC, ioR) ==
    IF ~f.exists
    THEN LET w == WriteFile(f, <<"[", "]">>, ioC)
         IN  [file |-> w.file, objs |-> <<>>, err |-> w.err]
    ELSE IF ioR.kind # "ok"
    THEN [file |-> f, objs |-> <<>>, err |-> TRUE]
    ELSE LET u == Unmarshal(f.data)
         IN  [file |-> f, objs |-> u.objs, err |-> u.err]

\* The eviction of state.go:105-109, wrongly dropping the newest entry.
EvictNewest(objs) ==
    IF Len(objs) > maxProcessedObjects THEN SubSeq(objs, 1, Len(objs) - 1) ELSE objs

\* The eviction of state.go:105-109 with the test off by one.
EvictLate(objs) ==
    IF Len(objs) > maxProcessedObjects + 1 THEN Tail(objs) ELSE objs

\* state.go:105-109: rotate the oldest remembered object out.
Evict(objs) ==
    IF Len(objs) > maxProcessedObjects THEN Tail(objs) ELSE objs

\* SetProcessed persisting the slice it read, the append of state.go:103
\* left out.
setProcessedNoAppend(f, object, ioC, ioR, ioW) ==
    LET p == processedObjects(f, ioC, ioR)
    IN  IF p.err THEN [file |-> p.file, err |-> TRUE]
        ELSE WriteFile(p.file, Marshal(Evict(p.objs)), ioW)

\* The body of FileStater.SetProcessed between Lock and Unlock,
\* state.go:98-120.
setProcessed(f, object, ioC, ioR, ioW) ==
    LET p == processedObjects(f, ioC, ioR)
    IN  IF p.err THEN [file |-> p.file, err |-> TRUE]
        ELSE WriteFile(p.file, Marshal(Evict(Append(p.objs, object))), ioW)

\* What a fresh FileStater on the same state file returns from
\* ProcessedObjects when its file operations succeed.
ReadBack(f) == processedObjects(f, IoOk, IoOk)

\* created: the call found no state file (os.IsNotExist, state.go:67);
\* iofail: a file operation of the call failed.
NoRet == [op |-> "none", id |-> "", err |-> FALSE, objs |-> <<>>,
          created |-> FALSE, iofail |-> FALSE]

---------------------------------------------------------------------------
\* Sequential use of the store, with failing file operations.

NoOne == "none"
Workers == {"w1", "w2"}

ConcIdle ==
    /\ mutex = NoOne
    /\ wpc = [w \in Workers |-> "idle"]
    /\ wop = [w \in Workers |-> [op |-> "none", id |-> ""]]
    /\ wobjs = [w \in Workers |-> <<>>]
    /\ wret = [w \in Workers |-> ""]
    /\ committed = <<>>
    /\ started = 0

StoreInit ==
    /\ file \in {NoFile, [exists |-> TRUE, data |-> <<"[", "]">>]}
    /\ inserted = <<>>
    /\ writeFailed = FALSE
    /\ ret = NoRet
    /\ calls = 0

Handlers == 1 .. NumParsers

IdleHandler == [st |-> "idle", line |-> 0]

\* No Publish under way, for the specifications of the store alone.
PubIdle ==
    /\ variant = "elb"
    /\ obj = [id |-> "a", lines |-> <<>>, readable |-> 0, openErr |-> FALSE]
    /\ ppc = "done"
    /\ pos = 0
    /\ nLines = 0
    /\ idx = 0
    /\ ev = 0
    /\ submitted = <<>>
    /\ confirmed = <<>>
    /\ forwarded = <<>>
    /\ dropped = {}
    /\ hstate = [h \in Handlers |-> IdleHandler]
    /\ timerArmed = FALSE
    /\ timerChan = FALSE
    /\ parseRet = "running"
    /\ pret = "running"
    /\ localFile = FALSE
    /\ markCalled = FALSE
    /\ file0 = NoFile
    /\ timerStale = FALSE

\* A value of the event's Data map (map[string]interface{}): what the type
\* assertions of elb.go:91-92 and elb.go:105-106 tell apart.  Strings are
\* sequences of characters.
Absent    == [t |-> "absent", i |-> 0, s |-> <<>>]
IntVal(n) == [t |-> "int", i |-> n, s |-> <<>>]
StrVal(s) == [t |-> "string", i |-> 0, s |-> s]

\* The keys DynSample looks up in ev.Data.
ElbKeyFields == {"backend_status_code", "elb_status_code", "elb"}
CfKeyFields  == {"sc-status", "cs"}

\* The fields of the events of the model: the keys the samplers look up and
\* the status and host fields of the aws_cf_web format.
FieldNames == ElbKeyFields \cup CfKeyFields \cup {"sc_status", "cs_host"}

\* An event without any of these fields.
NoEvent == [n \in FieldNames |-> Absent]

\* DynSample has taken no event yet.
NoSample == [taken |-> FALSE, data |-> NoEvent, key |-> <<>>, est |-> 1,
             rate |-> 1, draw |-> 0, panicked |-> FALSE, out |-> FALSE,
             sampleRate |-> 0]

SampleIdle ==
    /\ sampler = "elb"
    /\ slast = NoSample
    /\ sampledCh = <<>>

\* No line scanned.
RejoinIdle ==
    /\ line = <<>>
    /\ rj = [done |-> FALSE, skipped |-> FALSE, panicked |-> FALSE,
             text |-> <<>>]

Sources == {"lb1", "lb2"}

\* No ingest command running.
IngestIdle ==
    /\ cmd = "elb"
    /\ configured = <<>>
    /\ pending = [s \in Sources |-> <<>>]
    /\ published = <<>>
    /\ mpc = "exited"
    /\ offers = 0

AuxIdle == SampleIdle /\ RejoinIdle /\ IngestIdle

Init == StoreInit /\ ConcIdle /\ PubIdle /\ AuxIdle

\* FileStater.ProcessedObjects, state.go:88-92.
ProcessedObjects ==
    /\ calls < MaxCalls
    /\ \E ioC \in WriteOutcomes(<<"[", "]">>), ioR \in ReadOutcomes :
          LET p == processedObjects(file, ioC, ioR)
          IN  /\ file' = p.file
              /\ ret' = [op |-> "ProcessedObjects", id |-> "",
                         err |-> p.err, objs |-> p.objs,
                         created |-> ~file.exists,
                         iofail |-> IF file.exists THEN ioR.kind # "ok"
                                    ELSE ioC.kind # "ok"]
              /\ writeFailed' = (writeFailed \/ (~file.exists /\ ioC.kind # "ok"))
    /\ calls' = calls + 1
    /\ UNCHANGED <<inserted, concVars, pubVars, auxVars>>

\* FileStater.SetProcessed, state.go:94-121.
SetProcessed ==
    /\ calls < MaxCalls
    /\ \E object \in Objects, ioC \in WriteOutcomes(<<"[", "]">>),
          ioR \in ReadOutcomes :
          LET p == processedObjects(file, ioC, ioR)
          IN  \E ioW \in WriteOutcomes(Marshal(Evict(Append(p.objs, object)))) :
                LET s == setProcessed(file, object, ioC, ioR, ioW)
                IN  /\ file' = s.file
                    /\ ret' = [op |-> "SetProcessed", id |-> object,
                               err |-> s.err, objs |-> <<>>,
                               created |-> ~file.exists,
                               iofail |-> \/ (file.exists /\ ioR.kind # "ok")
                                          \/ (~file.exists /\ ioC.kind # "ok")
                                          \/ (~p.err /\ ioW.kind # "ok")]
                    /\ inserted' = IF s.err THEN inserted
                                   ELSE Append(inserted, object)
                    /\ writeFailed' = (writeFailed
                                       \/ (~file.exists /\ ioC.kind # "ok")
                                       \/ (~p.err /\ ioW.kind # "ok"))
    /\ calls' = calls + 1
    /\ UNCHANGED <<concVars, pubVars, auxVars>>

Next == ProcessedObjects \/ SetProcessed

Spec == Init /\ [][Next]_vars

\* The last n entries of s (all of s when it is shorter).
LastN(s, n) == IF Len(s) <= n THEN s ELSE SubSeq(s, Len(s) - n + 1, Len(s))

Range(s) == {s[i] : i \in 1 .. Len(s)}

\* The durable set as a fresh store reads it.
Durable(f) == [err |-> ReadBack(f).err, objs |-> ReadBack(f).objs]

\* C1: whatever SetProcessed calls were made (failed ones included), what
\* ProcessedObjects returns, from this store or a fresh one, never has more
\* than maxProcessedObjects entries.
C1_DedupBound ==
    /\ Len(ReadBack(file).objs) <= maxProcessedObjects
    /\ Len(ret.objs) <= maxProcessedObjects

\* More ids were inserted than the cap holds and the file is at the cap.
C1_Witness ==
    /\ Len(inserted) > maxProcessedObjects
    /\ ~ReadBack(file).err
    /\ Len(ReadBack(file).objs) = maxProcessedObjects

\* C2: as long as no write of the state file has failed, the persisted
\* sequence is the last min(n, maxProcessedObjects) ids of the n successful
\* SetProcessed calls, in insertion order (so each eviction removed the
\* oldest entry), and a ProcessedObjects call that can read the file returns
\* exactly that.
C2_FifoEviction ==
    ~writeFailed =>
        /\ ~ReadBack(file).err
        /\ ReadBack(file).objs = LastN(inserted, maxProcessedObjects)
        /\ (ret.op = "ProcessedObjects" /\ ~ret.err) =>
               ret.objs = LastN(inserted, maxProcessedObjects)

\* Two evictions have happened and ProcessedObjects has just been called.
C2_Witness ==
    /\ ~writeFailed
    /\ Len(inserted) > maxProcessedObjects + 1
    /\ ret.op = "ProcessedObjects"
    /\ ~ret.err
    /\ Len(ret.objs) = maxProcessedObjects
    /\ inserted[1] # inserted[2]
    /\ inserted[1] \notin Range(ret.objs)
    /\ ret.objs[1] = inserted[Len(inserted) - maxProcessedObjects + 1]

\* C7 (as claimed): a SetProcessed call that returns an error leaves the
\* durable set as a fresh store reads it exactly as it was before the call.
C7_AtomicPersist ==
    [][(ret'.op = "SetProcessed" /\ ret'.err) => Durable(file') = Durable(file)]_vars

\* C9: right after SetProcessed(x) returned nil, a fresh store on the same
\* state file reads without error a sequence that contains x.
C9_DurabilityRoundTrip ==
    (ret.op = "SetProcessed" /\ ~ret.err) =>
        /\ ~ReadBack(file).err
        /\ ret.id \in Range(ReadBack(file).objs)

\* SetProcessed succeeded on a file already at the cap.
C9_Witness ==
    /\ ret.op = "SetProcessed"
    /\ ~ret.err
    /\ Len(inserted) > maxProcessedObjects
    /\ ret.id \in Range(ReadBack(file).objs)

\* C11: a call that finds no state file and whose file operations succeed
\* returns no error; ProcessedObjects then returns the empty slice and leaves
\* a state file holding the empty array, and SetProcessed(x) leaves a state
\* file that reads back as exactly <<x>>.
C11_FirstRun ==
    (ret.created /\ ~ret.iofail) =>
        /\ ~ret.err
        /\ ret.op = "ProcessedObjects" =>
               /\ ret.objs = <<>>
               /\ file = [exists |-> TRUE, data |-> Marshal(<<>>)]
        /\ ret.op = "SetProcessed" =>
               Durable(file) = [err |-> FALSE, objs |-> <<ret.id>>]

\* The very first call on a missing state file was SetProcessed and it
\* returned nil.
C11_Witness ==
    /\ calls = 1
    /\ ret.created
    /\ ret.op = "SetProcessed"
    /\ ~ret.err
    /\ file.exists
    /\ inserted = <<ret.id>>

\* C24 (as claimed): the persisted sequence never holds an id twice, and a
\* SetProcessed of an id it already holds that returns nil leaves it as it
\* was.
C24_NoDuplicateEntries ==
    /\ [](~ReadBack(file).err =>
              Cardinality(Range(ReadBack(file).objs)) = Len(ReadBack(file).objs))
    /\ [][(/\ ret'.op = "SetProcessed"
           /\ ~ret'.err
           /\ calls' = calls + 1
           /\ ~Durable(file).err
           /\ ret'.id \in Range(Durable(file).objs)) =>
              Durable(file') = Durable(file)]_vars

---------------------------------------------------------------------------
\* Several goroutines calling one FileStater (the publisher's SetProcessed,
\* the downloaders' ProcessedObjects), one file-system call per step.

\* A Lock that never waits.
MutexIgnored == TRUE

\* f.Lock() returns only while no other caller holds the mutex,
\* state.go:89 and state.go:95.
MutexFree == mutex = NoOne

\* A goroutine calls ProcessedObjects() or SetProcessed(id).
Begin(w) ==
    /\ wpc[w] = "idle"
    /\ started < MaxStarted
    /\ \E c \in {[op |-> "ProcessedObjects", id |-> ""]}
                 \cup {[op |-> "SetProcessed", id |-> o] : o \in Objects} :
          wop' = [wop EXCEPT ![w] = c]
    /\ wpc' = [wpc EXCEPT ![w] = "lock"]
    /\ wret' = [wret EXCEPT ![w] = ""]
    /\ wobjs' = [wobjs EXCEPT ![w] = <<>>]
    /\ started' = started + 1
    /\ UNCHANGED <<auxVars, pubVars, storeVars, mutex, committed>>

\* f.Lock(), state.go:89 / state.go:95.
Lock(w) ==
    /\ wpc[w] = "lock"
    /\ MutexFree
    /\ mutex' = w
    /\ wpc' = [wpc EXCEPT ![w] = "stat"]
    /\ UNCHANGED <<auxVars, pubVars, storeVars, wop, wobjs, wret, committed, started>>

\* os.Stat(f.stateFile()), state.go:67.
Stat(w) ==
    /\ wpc[w] = "stat"
    /\ wpc' = [wpc EXCEPT ![w] = IF file.exists THEN "read" ELSE "create"]
    /\ UNCHANGED <<auxVars, pubVars, storeVars, mutex, wop, wobjs, wret, committed, started>>

\* ioutil.WriteFile of state.go:69, its open: the file is created empty.
CreateOpen(w) ==
    /\ wpc[w] = "create"
    /\ file' = [exists |-> TRUE, data |-> <<>>]
    /\ wpc' = [wpc EXCEPT ![w] = "createWrite"]
    /\ UNCHANGED <<auxVars, pubVars, inserted, writeFailed, ret, calls, mutex, wop, wobjs, wret,
                   committed, started>>

\* ioutil.WriteFile of state.go:69, its write of `[]`; processedObjects
\* returns the nil slice (state.go:73).
CreateWrite(w) ==
    /\ wpc[w] = "createWrite"
    /\ file' = [exists |-> TRUE, data |-> <<"[", "]">>]
    /\ wobjs' = [wobjs EXCEPT ![w] = <<>>]
    /\ IF wop[w].op = "ProcessedObjects"
       THEN /\ wret' = [wret EXCEPT ![w] = "ok"]
            /\ wpc' = [wpc EXCEPT ![w] = "unlock"]
       ELSE /\ wret' = wret
            /\ wpc' = [wpc EXCEPT ![w] = "trunc"]
    /\ UNCHANGED <<auxVars, pubVars, inserted, writeFailed, ret, calls, mutex, wop, committed, started>>

\* ioutil.ReadFile and json.Unmarshal, state.go:76-85.
Read(w) ==
    /\ wpc[w] = "read"
    /\ LET u == Unmarshal(file.data)
       IN  /\ wobjs' = [wobjs EXCEPT ![w] = u.objs]
           /\ IF u.err
              THEN /\ wret' = [wret EXCEPT ![w] = "err"]
                   /\ wpc' = [wpc EXCEPT ![w] = "unlock"]
              ELSE IF wop[w].op = "ProcessedObjects"
              THEN /\ wret' = [wret EXCEPT ![w] = "ok"]
                   /\ wpc' = [wpc EXCEPT ![w] = "unlock"]
              ELSE /\ wret' = wret
                   /\ wpc' = [wpc EXCEPT ![w] = "trunc"]
    /\ UNCHANGED <<auxVars, pubVars, storeVars, mutex, wop, committed, started>>

\* state.go:103-116: append, evict, marshal, and the open of ioutil.WriteFile,
\* which truncates the state file.
Trunc(w) ==
    /\ wpc[w] = "trunc"
    /\ wobjs' = [wobjs EXCEPT ![w] = Evict(Append(wobjs[w], wop[w].id))]
    /\ file' = [exists |-> TRUE, data |-> <<>>]
    /\ wpc' = [wpc EXCEPT ![w] = "write"]
    /\ UNCHANGED <<auxVars, pubVars, inserted, writeFailed, ret, calls, mutex, wop, wret, committed,
                   started>>

\* state.go:116-120: the write of ioutil.WriteFile; SetProcessed returns nil.
Write(w) ==
    /\ wpc[w] = "write"
    /\ file' = [exists |-> TRUE, data |-> Marshal(wobjs[w])]
    /\ wret' = [wret EXCEPT ![w] = "ok"]
    /\ committed' = Append(committed, wop[w].id)
    /\ wpc' = [wpc EXCEPT ![w] = "unlock"]
    /\ UNCHANGED <<auxVars, pubVars, inserted, writeFailed, ret, calls, mutex, wop, wobjs, started>>

\* The deferred f.Unlock(), state.go:90 / state.go:96.
Unlock(w) ==
    /\ wpc[w] = "unlock"
    /\ mutex' = NoOne
    /\ wpc' = [wpc EXCEPT ![w] = "idle"]
    /\ UNCHANGED <<auxVars, pubVars, storeVars, wop, wobjs, wret, committed, started>>

NextConc ==
    \E w \in Workers :
        \/ Begin(w)
        \/ Lock(w)
        \/ Stat(w)
        \/ CreateOpen(w)
        \/ CreateWrite(w)
        \/ Read(w)
        \/ Trunc(w)
        \/ Write(w)
        \/ Unlock(w)

SpecConc == Init /\ [][NextConc]_vars

\* C10: with several goroutines on one FileStater no call fails, no update
\* is lost (whenever no call is in progress the file holds the last
\* maxProcessedObjects ids of all completed SetProcessed calls, in completion
\* order) and every ProcessedObjects result is the set left by some prefix of
\* the completed SetProcessed calls.
C10_SerializedAccess ==
    /\ \A w \in Workers : wret[w] # "err"
    /\ (\A w \in Workers : wpc[w] = "idle") =>
           Durable(file) = [err |-> FALSE,
                            objs |-> LastN(committed, maxProcessedObjects)]
    /\ \A w \in Workers :
           (wop[w].op = "ProcessedObjects" /\ wret[w] = "ok") =>
               \E k \in 0 .. Len(committed) :
                   wobjs[w] = LastN(SubSeq(committed, 1, k), maxProcessedObjects)

\* One goroutine is between the truncation and the write of SetProcessed
\* (the state file is empty on disk) while another waits in ProcessedObjects
\* for the mutex, after an earlier SetProcessed has completed.
C10_Witness ==
    \E w \in Workers, v \in Workers :
        /\ wpc[w] = "write"
        /\ file.data = <<>>
        /\ wpc[v] = "lock"
        /\ wop[v].op = "ProcessedObjects"
        /\ Len(committed) >= 1

---------------------------------------------------------------------------
\* publisher: HoneycombPublisher.Publish and the ParseEvents of the three
\* parsers.  The tokenizer (honeytail's nginx ProcessLines) and the sampling
\* stage reading parsedCh are the environment: each of NumParsers handlers
\* takes a line from linesCh and either blocks sending its event on eventsCh
\* or, when the line does not match the log format, drops it and takes the
\* next line; the stage behind `out` always takes the event.

Variants == {"elb", "cloudfront", "cloudfront_old"}

\* elb.go and cloudfront.go wait for each line's event before the next line;
\* the earlier CloudfrontEventParser sends every line first.
Lockstep(v) == v # "cloudfront_old"

\* A line of the file: a log line the tokenizer parses ("data"), a non-blank,
\* non-comment line of two fields or more that it cannot parse and drops
\* ("bad"), one with fewer than two fields, which it cannot parse either
\* ("short"), an empty line or a line starting with "#".
LineKinds == {"data", "bad", "short", "blank", "comment"}

\* line == "" || strings.HasPrefix(line, "#"), elb.go:70, cloudfront.go:76.
Skipped(kind) == kind \in {"blank", "comment"}

RECURSIVE SeqsUpTo(_, _)
SeqsUpTo(S, n) ==
    IF n = 0 THEN {<<>>}
    ELSE LET shorter == SeqsUpTo(S, n - 1)
         IN  shorter \cup {Append(q, x) : q \in {r \in shorter : Len(r) = n - 1}, x \in S}

\* Downloaded objects: the lines of the file, how many of them the scanner
\* yields before a read error (all of them: no error), and whether opening
\* the file (or its gzip stream) fails.
DownloadedObjects ==
    {[id |-> "a", lines |-> l, readable |-> r, openErr |-> FALSE] :
        l \in SeqsUpTo(LineKinds, MaxLines), r \in 0 .. MaxLines}
    \cup {[id |-> "a", lines |-> l, readable |-> Len(l), openErr |-> TRUE] :
        l \in SeqsUpTo(LineKinds, 1)}

ScanFailed(o) == o.readable < Len(o.lines)

\* cloudfront.go:90 (part_000:88) indexes splitLine[0] and splitLine[1]: a
\* line with fewer than two fields makes ParseEvents panic.  elb.go sends
\* the line as it is.
Panics(v, kind) == v # "elb" /\ kind = "short"

InitPub ==
    /\ StoreInit
    /\ ConcIdle
    /\ variant \in Variants
    /\ obj \in {o \in DownloadedObjects : o.readable <= Len(o.lines)}
    /\ ppc = "start"
    /\ pos = 0
    /\ nLines = 0
    /\ idx = 0
    /\ ev = 0
    /\ submitted = <<>>
    /\ confirmed = <<>>
    /\ forwarded = <<>>
    /\ dropped = {}
    /\ hstate = [h \in Handlers |-> IdleHandler]
    /\ timerArmed = FALSE
    /\ timerChan = FALSE
    /\ parseRet = "running"
    /\ pret = "running"
    /\ localFile = TRUE
    /\ markCalled = FALSE
    /\ file0 = file
    /\ timerStale = FALSE
    /\ AuxIdle

\* ParseEvents up to its loop: go np.ProcessLines, os.Open (and
\* gzip.NewReader), the scanner, nLines := 0 and, in elb.go:65 and
\* cloudfront.go:71, time.NewTimer(time.Second).
ParseStart ==
    /\ ppc = "start"
    /\ IF obj.openErr
       THEN /\ parseRet' = "open"
            /\ ppc' = "parsed"
            /\ timerArmed' = timerArmed
       ELSE /\ parseRet' = parseRet
            /\ ppc' = "scan"
            /\ timerArmed' = Lockstep(variant)
    /\ UNCHANGED <<storeVars, concVars, auxVars, variant, obj, pos, nLines, idx, ev,
                   submitted, confirmed, forwarded, dropped, hstate, timerChan,
                   pret, localFile, markCalled, file0, timerStale>>

\* What ParseEvents returns once scanner.Scan() is false: elb.go:83 returns
\* scanner.Err(), cloudfront.go:106 returns nil.
AfterLoop(v, scanFailed) == IF v = "elb" /\ scanFailed THEN "scan" ELSE "nil"

\* One scanner.Scan() of the for loop, elb.go:67-72, cloudfront.go:73-92
\* (the line is skipped, or split and rejoined, or kept as it is), and the
\* end of the loop.
Scan ==
    /\ ppc = "scan"
    /\ IF pos < obj.readable
       THEN /\ pos' = pos + 1
            /\ nLines' = IF Lockstep(variant) THEN nLines + 1 ELSE nLines
            /\ ppc' = IF Skipped(obj.lines[pos + 1]) THEN "scan"
                       ELSE IF Panics(variant, obj.lines[pos + 1]) THEN "crashed"
                       ELSE "send"
            /\ parseRet' = IF ~Skipped(obj.lines[pos + 1])
                               /\ Panics(variant, obj.lines[pos + 1])
                            THEN "panic" ELSE parseRet
            /\ idx' = idx
       ELSE /\ UNCHANGED <<pos, nLines>>
            /\ idx' = 0
            /\ IF Lockstep(variant) \/ nLines = 0
               THEN /\ parseRet' = AfterLoop(variant, ScanFailed(obj))
                    /\ ppc' = "parsed"
               ELSE /\ parseRet' = parseRet
                    /\ ppc' = "drain"
    /\ UNCHANGED <<storeVars, concVars, auxVars, variant, obj, ev, submitted, confirmed,
                   forwarded, dropped, hstate, timerArmed, timerChan, pret,
                   localFile, markCalled, file0, timerStale>>

\* linesCh <- line, elb.go:73, cloudfront.go:94: an idle handler takes the
\* line and either has its event ready to send or drops the line.
SendLine(h) ==
    /\ ppc = "send"
    /\ hstate[h].st = "idle"
    /\ LET emits == obj.lines[pos] = "data"
       IN  /\ hstate' = [hstate EXCEPT ![h] =
                            IF emits THEN [st |-> "emit", line |-> pos]
                            ELSE IdleHandler]
           /\ dropped' = IF emits THEN dropped ELSE dropped \cup {pos}
    /\ submitted' = Append(submitted, pos)
    /\ nLines' = IF Lockstep(variant) THEN nLines ELSE nLines + 1
    /\ ppc' = IF Lockstep(variant) THEN "wait" ELSE "scan"
    /\ timerStale' = timerChan
    /\ UNCHANGED <<storeVars, concVars, auxVars, variant, obj, pos, idx, ev, confirmed,
                   forwarded, timerArmed, timerChan, parseRet, pret, localFile,
                   markCalled, file0>>

\* case ev := <-eventsCh of the select, elb.go:77, cloudfront.go:99.
RecvEvent(h) ==
    /\ ppc \in {"wait", "drain"}
    /\ hstate[h].st = "emit"
    /\ ev' = hstate[h].line
    /\ confirmed' = Append(confirmed, hstate[h].line)
    /\ hstate' = [hstate EXCEPT ![h] = IdleHandler]
    /\ ppc' = "forward"
    /\ UNCHANGED <<storeVars, concVars, auxVars, variant, obj, pos, nLines, idx,
                   submitted, forwarded, dropped, timerArmed, timerChan,
                   parseRet, pret, localFile, markCalled, file0, timerStale>>

\* out <- ev, then timer.Reset(time.Second) (elb.go:78-80,
\* cloudfront.go:101-103; Reset does not drain timer.C) or, in the earlier
\* parser, i++ and the loop test.
Forward ==
    /\ ppc = "forward"
    /\ forwarded' = Append(forwarded, ev)
    /\ ev' = 0
    /\ IF Lockstep(variant)
       THEN /\ timerArmed' = TRUE
            /\ ppc' = "scan"
            /\ UNCHANGED <<idx, parseRet>>
       ELSE /\ timerArmed' = timerArmed
            /\ idx' = idx + 1
            /\ IF idx + 1 < nLines
               THEN /\ ppc' = "drain"
                    /\ parseRet' = parseRet
               ELSE /\ ppc' = "parsed"
                    /\ parseRet' = "nil"
    /\ UNCHANGED <<storeVars, concVars, auxVars, variant, obj, pos, nLines, submitted,
                   confirmed, dropped, hstate, timerChan, pret, localFile,
                   markCalled, file0, timerStale>>

\* The running timer of elb.go:65 / cloudfront.go:71 expires: a value is put
\* in timer.C, whatever ParseEvents is doing.
TimerFire ==
    /\ timerArmed
    /\ ppc \in {"scan", "send", "wait", "forward"}
    /\ timerArmed' = FALSE
    /\ timerChan' = TRUE
    /\ timerStale' = (ppc # "wait")
    /\ UNCHANGED <<storeVars, concVars, auxVars, variant, obj, ppc, pos, nLines, idx, ev,
                   submitted, confirmed, forwarded, dropped, hstate, parseRet,
                   pret, localFile, markCalled, file0>>

\* case <-timer.C of the select, elb.go:75-76, cloudfront.go:97-98.
Timeout ==
    /\ ppc = "wait"
    /\ timerChan
    /\ timerChan' = FALSE
    /\ parseRet' = "stall"
    /\ ppc' = "parsed"
    /\ UNCHANGED <<storeVars, concVars, auxVars, variant, obj, pos, nLines, idx, ev,
                   submitted, confirmed, forwarded, dropped, hstate, timerArmed,
                   pret, localFile, markCalled, file0, timerStale>>

\* case <-time.NewTimer(time.Second).C of the earlier parser's second loop:
\* the timer made for this iteration expires before an event is taken.
DrainTimeout ==
    /\ ppc = "drain"
    /\ parseRet' = "stall"
    /\ ppc' = "parsed"
    /\ UNCHANGED <<storeVars, concVars, auxVars, variant, obj, pos, nLines, idx, ev,
                   submitted, confirmed, forwarded, dropped, hstate, timerArmed,
                   timerChan, pret, localFile, markCalled, file0, timerStale>>

\* Publish going on although ParseEvents returned an error.
ParseFailedIgnored(r) == FALSE

\* if err := hp.EventParser.ParseEvents(...); err != nil, publisher.go:132.
ParseFailed(r) == r # "nil"

\* publisher.go:132-134: Publish returns the error of ParseEvents.
PublishParsed ==
    /\ ppc = "parsed"
    /\ IF ParseFailed(parseRet)
       THEN /\ pret' = parseRet
            /\ ppc' = "done"
       ELSE /\ pret' = pret
            /\ ppc' = "remove"
    /\ UNCHANGED <<storeVars, concVars, auxVars, variant, obj, pos, nLines, idx, ev,
                   submitted, confirmed, forwarded, dropped, hstate, timerArmed,
                   timerChan, parseRet, localFile, markCalled, file0, timerStale>>

\* Publish going on although os.Remove failed.
RemoveFailedIgnored(removed) == FALSE

\* if err := os.Remove(downloadedObj.Filename); err != nil, publisher.go:138.
RemoveFailed(removed) == ~removed

\* publisher.go:136-140: clean up the downloaded object.
Remove ==
    /\ ppc = "remove"
    /\ \E removed \in BOOLEAN :
          /\ localFile' = IF removed THEN FALSE ELSE localFile
          /\ IF RemoveFailed(removed)
             THEN /\ pret' = "remove"
                  /\ ppc' = "done"
             ELSE /\ pret' = pret
                  /\ ppc' = "mark"
    /\ UNCHANGED <<storeVars, concVars, auxVars, variant, obj, pos, nLines, idx, ev,
                   submitted, confirmed, forwarded, dropped, hstate, timerArmed,
                   timerChan, parseRet, markCalled, file0, timerStale>>

\* publisher.go:142-146: hp.Stater.SetProcessed(downloadedObj.Object).
Mark ==
    /\ ppc = "mark"
    /\ \E ioC \in WriteOutcomes(<<"[", "]">>), ioR \in ReadOutcomes :
          LET p == processedObjects(file, ioC, ioR)
          IN  \E ioW \in WriteOutcomes(Marshal(Evict(Append(p.objs, obj.id)))) :
                LET s == setProcessed(file, obj.id, ioC, ioR, ioW)
                IN  /\ file' = s.file
                    /\ pret' = IF s.err THEN "state" ELSE "nil"
    /\ markCalled' = TRUE
    /\ ppc' = "done"
    /\ UNCHANGED <<inserted, writeFailed, ret, calls, concVars, auxVars, variant, obj, pos,
                   nLines, idx, ev, submitted, confirmed, forwarded, dropped,
                   hstate, timerArmed, timerChan, parseRet, localFile, file0,
                   timerStale>>

NextPub ==
    \/ ParseStart
    \/ Scan
    \/ \E h \in Handlers : SendLine(h)
    \/ \E h \in Handlers : RecvEvent(h)
    \/ Forward
    \/ TimerFire
    \/ Timeout
    \/ DrainTimeout
    \/ PublishParsed
    \/ Remove
    \/ Mark

SpecPub == InitPub /\ [][NextPub]_vars

\* The goroutines are scheduled, the timers expire and the stage behind
\* `out` keeps reading: a step that can be taken is eventually taken.
FairSpecPub == SpecPub /\ WF_vars(NextPub)

\* The line numbers of the object's non-blank, non-comment lines.
DataLines(o) == {k \in 1 .. Len(o.lines) : ~Skipped(o.lines[k])}

\* C3 (as claimed): SetProcessed is called for an object only when every
\* non-blank, non-comment line of it was confirmed by an event and that
\* event was forwarded on `out`.
C3_MarkedOnlyAfterAllLines ==
    markCalled =>
        \A k \in DataLines(obj) :
            k \in Range(confirmed) /\ k \in Range(forwarded)

\* C4: once ParseEvents has returned an error, Publish returns that very
\* error, never calls SetProcessed, leaves the state file as it was when
\* Publish was called and leaves the downloaded file on disk.
C4_ParseFailureLeavesObject ==
    (parseRet \notin {"running", "nil"}) =>
        /\ ~markCalled
        /\ file = file0
        /\ localFile
        /\ pret \in {"running", parseRet}
        /\ (ppc = "done" => pret = parseRet)

\* Publish has returned a stall error after part of the object's events
\* were forwarded.
C4_Witness ==
    /\ ppc = "done"
    /\ pret = "stall"
    /\ Len(forwarded) >= 1

\* The tokenizer stub of the stall test: the object is read without error
\* and, of its n >= 1 non-blank, non-comment lines (each of two fields or
\* more), the first k < n are parsed and the others get no event.
StallObject(o) ==
    /\ ~o.openErr
    /\ ~ScanFailed(o)
    /\ \A k \in DataLines(o) : o.lines[k] \in {"data", "bad"}
    /\ \E k \in DataLines(o) : o.lines[k] = "bad"
    /\ \A j \in DataLines(o), k \in DataLines(o) :
           (o.lines[j] = "bad" /\ j < k) => o.lines[k] = "bad"

\* C5 (as claimed): on such an object Publish eventually returns the stall
\* error, and SetProcessed is never called for it.
C5_StallDetected ==
    /\ StallObject(obj) => <>(pret = "stall")
    /\ [](StallObject(obj) => ~markCalled)

\* C6 (as claimed): ParseEvents eventually returns, with nil or an error.
C6_NeverHangs == <>(parseRet # "running")

\* C8: SetProcessed is called only after os.Remove succeeded; when the
\* removal fails Publish returns the removal error, SetProcessed is not
\* called and the state file is as it was when Publish was called.
C8_RemoveFailureFailsPublish ==
    /\ markCalled => ~localFile
    /\ (ppc \in {"mark", "done"} /\ parseRet = "nil" /\ localFile) =>
           /\ pret = "remove"
           /\ ~markCalled
           /\ file = file0

\* Every line was parsed and forwarded, then os.Remove failed.
C8_Witness ==
    /\ ppc = "done"
    /\ pret = "remove"
    /\ localFile
    /\ Len(forwarded) >= 2

\* s is an initial part of t.
IsPrefix(s, t) == Len(s) <= Len(t) /\ s = SubSeq(t, 1, Len(s))

\* The line numbers of the object's non-blank, non-comment lines from line
\* k on, in file order.
RECURSIVE KeptFrom(_, _)
KeptFrom(o, k) ==
    IF k > Len(o.lines) THEN <<>>
    ELSE (IF Skipped(o.lines[k]) THEN <<>> ELSE <<k>>) \o KeptFrom(o, k + 1)

\* C17 (as claimed): the lines sent on linesCh are, at every moment, an
\* initial part of the object's non-blank, non-comment lines in file order,
\* each once, and when ParseEvents returns nil they are all of them.
C17_SubmittedInOrder ==
    /\ IsPrefix(submitted, KeptFrom(obj, 1))
    /\ parseRet = "nil" => submitted = KeptFrom(obj, 1)

\* C18 (as claimed): ParseEvents returns the stall error only on a timer
\* value that was sent after the line it waits for was submitted; a value
\* left in timer.C by an expiry before the submission never aborts the line.
C18_DeadlineFromSubmission == parseRet = "stall" => ~timerStale

\* C19 (as claimed): when opening or decompressing the file fails, or the
\* scanner stops on a read error before the last line, ParseEvents does not
\* return nil, the downloaded file stays on disk and SetProcessed is not
\* called; ParseEvents returns nil only after the scanner yielded every line.
C19_ReadErrorsAbort ==
    /\ (obj.openErr \/ ScanFailed(obj)) =>
           /\ parseRet # "nil"
           /\ localFile
           /\ ~markCalled
    /\ parseRet = "nil" => pos = Len(obj.lines)

\* C20 (as claimed): the events sent on `out` are the events taken from
\* eventsCh, in that order and each once, all of them but the one ParseEvents
\* holds between the receive and the send; none is sent twice and what was
\* sent stays sent; when ParseEvents returns nil their number is the number
\* of non-blank, non-comment lines, and when it returns an error every event
\* taken has been sent.
C20_OneEventPerConfirmedLine ==
    /\ [](/\ forwarded = IF ev # 0 THEN SubSeq(confirmed, 1, Len(confirmed) - 1)
                         ELSE confirmed
          /\ Cardinality(Range(forwarded)) = Len(forwarded)
          /\ parseRet = "nil" => Len(forwarded) = Cardinality(DataLines(obj))
          /\ parseRet \notin {"running", "nil"} => forwarded = confirmed)
    /\ [][IsPrefix(forwarded, forwarded')]_vars

\* C21 (as claimed): the i-th event taken from eventsCh, and the i-th event
\* sent on `out`, is the event of the i-th line sent on linesCh, whatever
\* the number of line handlers.
C21_LineEventCorrespondence ==
    /\ \A i \in 1 .. Len(confirmed) :
           i <= Len(submitted) /\ confirmed[i] = submitted[i]
    /\ \A i \in 1 .. Len(forwarded) :
           i <= Len(submitted) /\ forwarded[i] = submitted[i]

\* The counts the stall error carries: nLines in elb.go:76 and
\* cloudfront.go:98, i and nLines in the earlier parser (part_000:99).
StallCounts == IF Lockstep(variant) THEN <<nLines>> ELSE <<idx, nLines>>

\* C22 (as claimed): the stall error of elb.go and cloudfront.go carries the
\* number of events received and the number of lines sent on linesCh,
\* skipped lines not counted.
C22_StallErrorCounts ==
    (parseRet = "stall" /\ Lockstep(variant)) =>
        /\ Len(confirmed) \in Range(StallCounts)
        /\ Len(submitted) \in Range(StallCounts)

\* close(linesCh): none of the three ParseEvents closes the channel it made
\* (elb.go:51-85, cloudfront.go:52-107), on any path.
LinesChClosed == FALSE

\* A line handler of ProcessLines ends when its `range lines` finds the
\* channel closed; one blocked sending its event never gets there.
HandlerExited(h) == hstate[h].st = "idle" /\ LinesChClosed

\* C25 (as claimed): once ParseEvents has returned, with nil or an error,
\* every line handler started for the object eventually ends.
C25_NoLeakedWorker ==
    [](parseRet \notin {"running", "panic"} =>
           <>(\A h \in Handlers : HandlerExited(h)))

---------------------------------------------------------------------------
\* publisher: the DynSample goroutine of each parser, between parsedCh and
\* sampledCh, and sendEventsToHoneycomb behind it.  The rate estimator
\* (dynsampler-go) is the environment: GetSampleRate may return any integer.

\* The fields the log formats of publisher.go:24-25 declare; the tokenizer
\* names an event's fields after them.
ElbFields ==
    {"timestamp", "elb", "client_authority", "backend_authority",
     "request_processing_time", "backend_processing_time",
     "response_processing_time", "elb_status_code", "backend_status_code",
     "received_bytes", "sent_bytes", "request", "user_agent", "ssl_cipher",
     "ssl_protocol"}

CfWebFields ==
    {"timestamp", "x_edge_location", "sc_bytes", "c_ip", "cs_method",
     "cs_host", "cs_uri_stem", "sc_status", "cs_referer", "cs_user_agent",
     "cs_uri_query", "cs_cookie", "x_edge_result_type", "x_edge_request_id",
     "x_host_header", "cs_protocol", "cs_bytes", "time_taken",
     "x_forwarded_for", "ssl_protocol", "ssl_cipher",
     "x_edge_response_result_type", "cs_protocol_version"}

\* Status codes and names the events of the model carry.
StatusCodes == {200, 404}
Names == {<<"d", "1">>, <<"d", "2">>}
FieldValues == {IntVal(n) : n \in StatusCodes} \cup {StrVal(s) : s \in Names}

\* The event whose fields of S are given by f and which has no other field.
EventOf(S, f) == [n \in FieldNames |-> IF n \in S THEN f[n] ELSE Absent]

\* Events DynSample may be handed: for the ELB sampler any choice of the
\* three fields it looks at; for the CloudFront samplers events with the
\* status and host fields of the aws_cf_web format, and events carrying the
\* keys the sampler looks up.
ElbEvents ==
    {EventOf(ElbKeyFields, f) : f \in [ElbKeyFields -> FieldValues \cup {Absent}]}

CfEvents ==
    {EventOf({"sc_status", "cs_host"}, f) :
        f \in [{"sc_status", "cs_host"} -> FieldValues \cup {Absent}]}
    \cup {EventOf(CfKeyFields, f) : f \in [CfKeyFields -> FieldValues \cup {Absent}]}

EventsOf(v) == IF v = "elb" THEN ElbEvents ELSE CfEvents

\* v, ok := ev.Data[name]: ok is v.t # "absent".
Lookup(data, name) == IF name \in DOMAIN data THEN data[name] ELSE Absent

Digits == <<"0", "1", "2", "3", "4", "5", "6", "7", "8", "9">>

\* fmt.Sprintf("%d", n).
RECURSIVE Decimal(_)
Decimal(n) ==
    IF n < 0 THEN <<"-">> \o Decimal(0 - n)
    ELSE IF n < 10 THEN <<Digits[n + 1]>>
    ELSE Decimal(n \div 10) \o <<Digits[(n % 10) + 1]>>

\* The key of elb.go:90-109 without the per-ELB part of elb.go:104-109.
ElbSampleKeyNoName(data) ==
    LET bsc == Lookup(data, "backend_status_code")
        k1  == IF bsc.t # "absent"
               THEN IF bsc.t = "int" THEN Decimal(bsc.i) ELSE <<"0">>
               ELSE <<>>
        esc == Lookup(data, "elb_status_code")
    IN  IF esc.t = "int" THEN k1 \o <<"_">> \o Decimal(esc.i) ELSE k1

\* ELBEventParser.DynSample, elb.go:90-109: the key handed to GetSampleRate.
ElbSampleKey(data) ==
    LET bsc  == Lookup(data, "backend_status_code")
        k1   == IF bsc.t # "absent"
                THEN IF bsc.t = "int" THEN Decimal(bsc.i) ELSE <<"0">>
                ELSE <<>>
        esc  == Lookup(data, "elb_status_code")
        k2   == IF esc.t = "int" THEN k1 \o <<"_">> \o Decimal(esc.i) ELSE k1
        name == Lookup(data, "elb")
    IN  IF name.t = "string" THEN k2 \o <<"_">> \o name.s ELSE k2

\* CloudFrontEventParser.DynSample, cloudfront.go:111-126 (the same in the
\* earlier parser): the key handed to GetSampleRate.
CfSampleKey(data) ==
    LET bsc  == Lookup(data, "sc-status")
        k1   == IF bsc.t # "absent"
                THEN IF bsc.t = "int" THEN Decimal(bsc.i) ELSE <<"0">>
                ELSE <<>>
        name == Lookup(data, "cs")
    IN  IF name.t = "string" THEN k1 \o <<"_">> \o name.s ELSE k1

SampleKey(v, data) == IF v = "elb" THEN ElbSampleKey(data) ELSE CfSampleKey(data)

\* Rates GetSampleRate returns in the model.
Rates == (0 - 1) .. MaxRate

\* DynSample without the test of elb.go:112-115.
ClampNone(rate) == rate

\* if rate <= 0 { ...; rate = 1 }, elb.go:112-115, cloudfront.go:129-132.
Clamp(rate) == IF rate <= 0 THEN 1 ELSE rate

\* rand.Intn(n): a value of [0, n); it panics when n <= 0, shown as -1.
Intn(n) == IF n <= 0 THEN {0 - 1} ELSE 0 .. (n - 1)

\* elb.go:116-119 and cloudfront.go:133-136 send the event inside the if;
\* the earlier CloudfrontEventParser sends it after the if.
SendsRejected(v) == v = "cloudfront_old"

InitSample ==
    /\ StoreInit
    /\ ConcIdle
    /\ PubIdle
    /\ RejoinIdle
    /\ IngestIdle
    /\ sampler \in Variants
    /\ slast = NoSample
    /\ sampledCh = <<>>

\* One iteration of `for ev := range in`, up to the send on out: it ends
\* with the event dropped or with DynSample blocked in `out <- ev`.  The
\* event arrives with the SampleRate the tokenizer left in it (sr0);
\* slast.sampleRate is ev.SampleRate at the end of the iteration.
DynSample ==
    /\ sampledCh = <<>>
    /\ ~slast.panicked
    /\ \E data \in EventsOf(sampler), est \in Rates, sr0 \in {0, 1} :
          LET key  == SampleKey(sampler, data)
              rate == Clamp(est)
          IN  \E d \in Intn(rate) :
                LET panicked == d < 0
                    accepted == ~panicked /\ d = 0
                    out      == ~panicked /\ (accepted \/ SendsRejected(sampler))
                    sr       == IF accepted THEN rate ELSE sr0
                IN  /\ slast' = [taken |-> TRUE, data |-> data, key |-> key,
                                 est |-> est, rate |-> rate, draw |-> d,
                                 panicked |-> panicked, out |-> out,
                                 sampleRate |-> sr]
                    /\ sampledCh' =
                          IF out
                          THEN <<[data |-> data, sampleRate |-> sr, draw |-> d]>>
                          ELSE <<>>
    /\ UNCHANGED <<storeVars, concVars, pubVars, rejoinVars, ingestVars, sampler>>

\* sendEventsToHoneycomb, publisher.go:109-129: takes the event DynSample is
\* sending and hands it to libhoney.
sendEventsToHoneycomb ==
    /\ sampledCh # <<>>
    /\ sampledCh' = <<>>
    /\ UNCHANGED <<storeVars, concVars, pubVars, rejoinVars, ingestVars, sampler, slast>>

NextSample == DynSample \/ sendEventsToHoneycomb

SpecSample == InitSample /\ [][NextSample]_vars

\* C12 (as claimed): in every sampler the event DynSample took last is sent
\* on to sendEventsToHoneycomb exactly when its draw was 0, an event on its
\* way to the sender was drawn 0 and carries the rate as its SampleRate.
C12_AcceptRule ==
    /\ slast.taken =>
           /\ slast.out <=> slast.draw = 0
           /\ slast.out => slast.sampleRate = slast.rate
    /\ \A k \in 1 .. Len(sampledCh) :
           /\ sampledCh[k].draw = 0
           /\ sampledCh[k].sampleRate = slast.rate

\* C13: when GetSampleRate returned a rate <= 0, DynSample used rate 1, drew
\* without a panic, and sent the event on with SampleRate 1; a rate of
\* exactly 1 also sends every event on; rand.Intn never gets a non-positive
\* argument.
C13_FaultClamp ==
    slast.taken =>
        /\ ~slast.panicked
        /\ slast.rate > 0
        /\ slast.est <= 1 =>
               /\ slast.rate = 1
               /\ slast.draw = 0
               /\ slast.out
               /\ slast.sampleRate = 1
               /\ \A k \in 1 .. Len(sampledCh) : sampledCh[k].sampleRate = 1

\* The CloudFront sampler got a negative rate and its event is on its way
\* to the sender with SampleRate 1.
C13_Witness ==
    /\ sampler = "cloudfront"
    /\ slast.taken
    /\ slast.est < 0
    /\ Len(sampledCh) = 1
    /\ sampledCh[1].sampleRate = 1

\* The segment a field adds to the key.
KeySegment(val, sep, absentAs) ==
    IF val.t = "int" THEN sep \o Decimal(val.i)
    ELSE IF val.t = "absent" THEN absentAs
    ELSE sep \o <<"0">>

NameSegment(val) == IF val.t = "string" THEN <<"_">> \o val.s ELSE <<>>

\* C14 (as claimed): the ELB key is the backend status code in decimal, "0"
\* when that field is absent or not an integer, then "_" and the ELB status
\* code when it is an integer, then "_" and the ELB name when it is a string.
C14_ElbKeyAsClaimed ==
    (sampler = "elb" /\ slast.taken) =>
        slast.key = KeySegment(slast.data["backend_status_code"], <<>>, <<"0">>)
                    \o (IF slast.data["elb_status_code"].t = "int"
                        THEN KeySegment(slast.data["elb_status_code"], <<"_">>, <<>>)
                        ELSE <<>>)
                    \o NameSegment(slast.data["elb"])

\* C14 (amended): the ELB key is the backend status code in decimal when it
\* is an integer, "0" when the field is present but not an integer and
\* nothing when it is absent; then "_" and the ELB status code when it is an
\* integer; then "_" and the ELB name when it is a string.
C14_ElbKey ==
    (sampler = "elb" /\ slast.taken) =>
        slast.key = KeySegment(slast.data["backend_status_code"], <<>>, <<>>)
                    \o (IF slast.data["elb_status_code"].t = "int"
                        THEN KeySegment(slast.data["elb_status_code"], <<"_">>, <<>>)
                        ELSE <<>>)
                    \o NameSegment(slast.data["elb"])

\* An ELB event without backend_status_code, with both other fields: its
\* key starts with the separator.
C14_Witness ==
    /\ sampler = "elb"
    /\ slast.taken
    /\ slast.data["backend_status_code"] = Absent
    /\ slast.data["elb_status_code"] = IntVal(404)
    /\ slast.data["elb"] = StrVal(<<"d", "1">>)
    /\ slast.key = <<"_", "4", "0", "4", "_", "d", "1">>

\* The event has only fields the aws_cf_web format declares.
CfSchemaEvent(data) ==
    \A n \in DOMAIN data : data[n] # Absent => n \in CfWebFields

\* C15 (as claimed): for an event of the aws_cf_web format with an integer
\* status code and a host name, the key of the CloudFront samplers is the
\* status code in decimal followed by "_" and the host name.
C15_CdnKey ==
    (/\ sampler # "elb"
     /\ slast.taken
     /\ CfSchemaEvent(slast.data)
     /\ slast.data["sc_status"].t = "int"
     /\ slast.data["cs_host"].t = "string") =>
        slast.key = Decimal(slast.data["sc_status"].i) \o <<"_">>
                    \o slast.data["cs_host"].s

---------------------------------------------------------------------------
\* cloudfront.go:73-94 (and the earlier parser, part_000:72-92): what the
\* loop body does with one scanned line before it is sent on linesCh.  A
\* line is a sequence of characters.

Space == {" "}
Chars == Space \cup {"x", "#"}

\* The texts scanner.Text() may return.
Lines == SeqsUpTo(Chars, MaxChars)

\* strings.Fields(s): the maximal runs of non-space characters.
RECURSIVE FieldsFrom(_, _, _)
FieldsFrom(s, cur, acc) ==
    IF s = <<>> THEN IF cur = <<>> THEN acc ELSE Append(acc, cur)
    ELSE IF Head(s) \in Space
         THEN FieldsFrom(Tail(s), <<>>, IF cur = <<>> THEN acc ELSE Append(acc, cur))
    ELSE FieldsFrom(Tail(s), Append(cur, Head(s)), acc)

Fields(s) == FieldsFrom(s, <<>>, <<>>)

\* strings.Join(a, sep).
RECURSIVE Join(_, _)
Join(a, sep) ==
    IF Len(a) = 0 THEN <<>>
    ELSE IF Len(a) = 1 THEN a[1]
    ELSE a[1] \o sep \o Join(Tail(a), sep)

\* line == "" || strings.HasPrefix(line, "#"), cloudfront.go:76.
SkippedLine(s) == s = <<>> \/ Head(s) = "#"

\* splitLine[0] and splitLine[1] of cloudfront.go:90 are in range.
IndexInRange(splitLine) == Len(splitLine) >= 2

\* cloudfront.go:80-94: Fields, the rejoin of date and time, Join.  Indexing
\* a slice of fewer than two fields panics.
Rejoin(s) ==
    LET splitLine == Fields(s)
    IN  IF ~IndexInRange(splitLine)
        THEN [panicked |-> TRUE, text |-> <<>>]
        ELSE [panicked |-> FALSE,
              text |-> Join(<<splitLine[1] \o <<"T">> \o splitLine[2]>>
                            \o SubSeq(splitLine, 3, Len(splitLine)), <<" ">>)]

InitRejoin ==
    /\ StoreInit
    /\ ConcIdle
    /\ PubIdle
    /\ SampleIdle
    /\ IngestIdle
    /\ line \in Lines
    /\ rj = [done |-> FALSE, skipped |-> FALSE, panicked |-> FALSE,
             text |-> <<>>]

\* The loop body for the scanned line, up to the send on linesCh.
ScanLine ==
    /\ ~rj.done
    /\ rj' = IF SkippedLine(line)
             THEN [done |-> TRUE, skipped |-> TRUE, panicked |-> FALSE,
                   text |-> <<>>]
             ELSE [done |-> TRUE, skipped |-> FALSE,
                   panicked |-> Rejoin(line).panicked,
                   text |-> Rejoin(line).text]
    /\ UNCHANGED <<storeVars, concVars, pubVars, sampleVars, ingestVars, line>>

NextRejoin == ScanLine

SpecRejoin == InitRejoin /\ [][NextRejoin]_vars

\* C16 (as claimed): for every line that is neither empty nor starts with
\* "#", the loop body does not panic, and the text it submits has the line's
\* fields, the first two joined by "T", separated by exactly one space.
C16_RejoinDefined ==
    (rj.done /\ ~rj.skipped) =>
        /\ ~rj.panicked
        /\ Len(Fields(line)) >= 2 =>
               /\ Fields(rj.text) =
                     <<Fields(line)[1] \o <<"T">> \o Fields(line)[2]>>
                     \o SubSeq(Fields(line), 3, Len(Fields(line)))
               /\ rj.text # <<>>
               /\ rj.text[1] \notin Space
               /\ rj.text[Len(rj.text)] \notin Space
               /\ \A k \in 1 .. (Len(rj.text) - 1) :
                      ~(rj.text[k] \in Space /\ rj.text[k + 1] \in Space)

---------------------------------------------------------------------------
\* The ingest command of the two programs: cmdELB (honeyelb) and
\* cmdCloudFront (honeycloudfront).  Each configured load balancer or
\* distribution gets a downloader whose Download() returns the channel its
\* goroutine sends downloaded objects on; Publish is the environment here,
\* it returns nil or an error.

Commands == {"elb", "cloudfront"}

\* The names given on the command line, in order.
Configurations ==
    {<<"lb1">>, <<"lb2">>, <<"lb1", "lb2">>, <<"lb2", "lb1">>}

\* for _, lbName := range lbNames { ...; downloadsCh = downloader.Download() }
\* (part_001:85-128, publisher.go:237-281): the variable is overwritten in
\* every iteration, so after the loop it is the last downloader's channel.
DownloadsCh(conf) == conf[Len(conf)]

\* The command after its select: cmdELB's select is inside `for`
\* (part_001:134-153); cmdCloudFront's is not (publisher.go:286-303), it
\* falls through to the return of publisher.go:307 and main exits.
AfterSelect(c) == IF c = "elb" THEN "loop" ELSE "failed"

InitIngest ==
    /\ StoreInit
    /\ ConcIdle
    /\ PubIdle
    /\ SampleIdle
    /\ RejoinIdle
    /\ cmd \in Commands
    /\ configured \in Configurations
    /\ pending = [s \in Sources |-> <<>>]
    /\ published = <<>>
    /\ mpc = "loop"
    /\ offers = 0

\* A downloader has downloaded an object and sends it on its channel (its
\* goroutine blocks there until the object is taken).
Offer(s) ==
    /\ mpc = "loop"
    /\ s \in Range(configured)
    /\ offers < MaxOffers
    /\ offers' = offers + 1
    /\ pending' = [pending EXCEPT ![s] = Append(pending[s], offers + 1)]
    /\ UNCHANGED <<storeVars, concVars, pubVars, sampleVars, rejoinVars, cmd,
                   configured, published, mpc>>

\* case download := <-downloadsCh: Publish, and the log line when it fails
\* (part_001:147-151, publisher.go:299-303).
IngestDownload ==
    /\ mpc = "loop"
    /\ pending[DownloadsCh(configured)] # <<>>
    /\ \E err \in BOOLEAN :
          published' = Append(published,
                              [src |-> DownloadsCh(configured),
                               n |-> Head(pending[DownloadsCh(configured)]),
                               err |-> err])
    /\ pending' = [pending EXCEPT ![DownloadsCh(configured)] = Tail(@)]
    /\ mpc' = AfterSelect(cmd)
    /\ UNCHANGED <<storeVars, concVars, pubVars, sampleVars, rejoinVars, cmd,
                   configured, offers>>

\* The process is interrupted: os.Exit(0) of part_001:146, or the default
\* action of the signal.
Interrupt ==
    /\ mpc = "loop"
    /\ mpc' = "exited"
    /\ UNCHANGED <<storeVars, concVars, pubVars, sampleVars, rejoinVars, cmd,
                   configured, pending, published, offers>>

NextIngest ==
    \/ \E s \in Sources : Offer(s)
    \/ IngestDownload
    \/ Interrupt

SpecIngest == InitIngest /\ [][NextIngest]_vars

\* The main goroutine is scheduled: a download it can take is taken.
FairSpecIngest == SpecIngest /\ WF_vars(IngestDownload)

\* Object n was sent by the downloader of s / was passed to Publish.
Offered(s, n) == \E i \in 1 .. Len(pending[s]) : pending[s][i] = n

Published(s, n) ==
    \E i \in 1 .. Len(published) : published[i].src = s /\ published[i].n = n

\* C23 (as claimed): every object a configured downloader offers is
\* eventually passed to Publish unless the process is interrupted, and a
\* Publish that fails leaves the command in its loop.
C23_IngestServesAll ==
    /\ \A s \in Sources : \A n \in 1 .. MaxOffers :
           [](Offered(s, n) => <>(Published(s, n) \/ mpc = "exited"))
    /\ [][(Len(published') > Len(published)) => mpc' = "loop"]_vars

===========================================================================
